---- MODULE Spec2Model ----
(***************************************************************************)
(* Model of the meridian positioning library: GeoCoordinate, GeoRectangle  *)
(* and GeoPath (src/src/positioning).                                      *)
(*                                                                         *)
(* Numbers.  An f64 degree value is held as an integer count of ticks,     *)
(* 2^Prec ticks to the degree, or as the value NaN.  Every value the model *)
(* draws is a dyadic rational, so the f64 sums, differences and halvings   *)
(* of the code are exact on it; an operation whose halvings would leave    *)
(* the tick grid is not taken (the *_exact guards).  Comparisons follow    *)
(* IEEE 754: every ordered comparison with NaN is false.                   *)
(*                                                                         *)
(* Behaviours.  A behaviour constructs one value (a rectangle, a path or a *)
(* coordinate) and then calls its methods one after another.  Any call may *)
(* be the one observed: `last` then holds the call, its arguments, the     *)
(* receiver before the call and the value returned, and the behaviour ends *)
(* with it.  A call that panics ends the behaviour as well.                *)
(***************************************************************************)
EXTENDS Integers, Sequences, FiniteSets, TLC

VARIABLES obj, tl, br, path, coord, calls, last

vars == <<obj, tl, br, path, coord, calls, last>>

----------------------------------------------------------------------------
(* Bounds of the model *)

\* ticks per degree is 2^Prec
Prec == 1
\* rectangle setter calls made before the observed call
MaxCalls == 1
\* longest path built
MaxLen == 2

----------------------------------------------------------------------------
(* f64 arithmetic on ticks *)

NaN == 1000000000

Scale == 2 ^ Prec
Deg(d) == d * Scale

Lt(a, b) == a # NaN /\ b # NaN /\ a < b
Gt(a, b) == a # NaN /\ b # NaN /\ a > b
Le(a, b) == a # NaN /\ b # NaN /\ a <= b
Ge(a, b) == a # NaN /\ b # NaN /\ a >= b
Eq(a, b) == a # NaN /\ b # NaN /\ a = b

Add(a, b) == IF a = NaN \/ b = NaN THEN NaN ELSE a + b
Sub(a, b) == IF a = NaN \/ b = NaN THEN NaN ELSE a - b
Twice(a) == IF a = NaN THEN NaN ELSE 2 * a
Half(a) == IF a = NaN THEN NaN ELSE a \div 2
HalfExact(a) == a = NaN \/ a % 2 = 0
Abs(a) == IF a = NaN THEN NaN ELSE IF a < 0 THEN 0 - a ELSE a
\* f64::max and f64::min return the other operand when one is NaN
Max(a, b) == IF a = NaN THEN b ELSE IF b = NaN THEN a ELSE IF a >= b THEN a ELSE b
Min(a, b) == IF a = NaN THEN b ELSE IF b = NaN THEN a ELSE IF a <= b THEN a ELSE b

D90 == Deg(90)
D180 == Deg(180)
D360 == Deg(360)

----------------------------------------------------------------------------
(* utility.rs: CoordinateField *)

Field_valid(x, field_type) ==
  IF field_type = "Latitude"
  THEN Ge(x, 0 - D90) /\ Le(x, D90)
  ELSE Ge(x, 0 - D180) /\ Le(x, D180)

wrap(x, field_type) ==
  IF field_type = "Latitude"
  THEN IF Gt(x, D90) THEN D90 ELSE IF Lt(x, 0 - D90) THEN 0 - D90 ELSE x
  ELSE IF Gt(x, D180) THEN D180 ELSE IF Lt(x, 0 - D180) THEN 0 - D180 ELSE x

----------------------------------------------------------------------------
(* coordinate.rs: GeoCoordinate.  altitude is <<>> (None) or <<a>> (Some(a)) *)

None == <<>>
Some(a) == <<a>>

GeoCoordinate_new(latitude, longitude, altitude) ==
  [latitude |-> latitude, longitude |-> longitude, altitude |-> altitude]

GeoCoordinate_default == GeoCoordinate_new(NaN, NaN, None)

coordinate_type(c) ==
  IF Field_valid(c.latitude, "Latitude") /\ Field_valid(c.longitude, "Longitude")
  THEN IF c.altitude # None THEN "Coordinate3D" ELSE "Coordinate2D"
  ELSE "InvalidCoordinate"

GeoCoordinate_valid(c) == coordinate_type(c) # "InvalidCoordinate"

----------------------------------------------------------------------------
(* coordinate.rs: PartialEq.  float_cmp's approx_eq! holds for operands  *)
(* that are equal, that differ by at most the epsilon 0.0000003, or that    *)
(* have the same bit pattern (the NaN of default(), see tests::test_default) *)

\* degrees, in ticks: a whole number of ticks is at most 3/10000000 degree
\* when it is at most the floor of that many ticks
approx_eq_f64(a, b) ==
  \/ Eq(a, b)
  \/ Le(Abs(Sub(a, b)), (3 * Scale) \div 10000000)
  \/ (a = NaN /\ b = NaN)

\* metres
approx_eq_f32(x, y) ==
  \/ x = y
  \/ (IF x < y THEN y - x ELSE x - y) <= 3 \div 10000000

unwrap_or(opt, d) == IF opt = None THEN d ELSE opt[1]

GeoCoordinate_eq(self, other) ==
  /\ approx_eq_f64(self.latitude, other.latitude)
  /\ approx_eq_f64(self.longitude, other.longitude)
  /\ \/ (other.altitude = None /\ other.altitude = None)
     \/ approx_eq_f32(unwrap_or(self.altitude, 1), unwrap_or(other.altitude, 0 - 1))

(* errors.rs: PositioningError, and the values a call returns *)

GeoRectangle_new(a, b) == [tl |-> a, br |-> b]

GeoRectangle_default == GeoRectangle_new(GeoCoordinate_default, GeoCoordinate_default)

Blank ==
  [kind |-> "Unit", err |-> "None", coord |-> GeoCoordinate_default,
   rect |-> GeoRectangle_default, bool |-> FALSE, index |-> 0, len |-> 0]

\* a function without a return value has returned
Unit == Blank
OkUnit == [Blank EXCEPT !.kind = "Ok"]
OkBool(b) == [Blank EXCEPT !.kind = "Ok", !.bool = b]
\* a plain bool has been returned
Bool(b) == [Blank EXCEPT !.kind = "Bool", !.bool = b]
OkCoord(c) == [Blank EXCEPT !.kind = "Ok", !.coord = c]
OkRect(r) == [Blank EXCEPT !.kind = "Ok", !.rect = r]
\* an f32 result; its magnitude is not modelled
OkF32 == [Blank EXCEPT !.kind = "Ok"]
InvalidCoordinate(c) == [Blank EXCEPT !.kind = "Err", !.err = "InvalidCoordinate", !.coord = c]
InvalidGeorectangle(r) == [Blank EXCEPT !.kind = "Err", !.err = "InvalidGeorectangle", !.rect = r]
IndexOutOfBounds(i, n) ==
  [Blank EXCEPT !.kind = "Err", !.err = "IndexOutOfBounds", !.index = i, !.len = n]
\* the call panicked: the thread unwinds and nothing is returned
Panic == [Blank EXCEPT !.kind = "Panic"]

IsErr(res) == res.kind = "Err"
IsOk(res) == res.kind = "Ok"

----------------------------------------------------------------------------
(* coordinate.rs: the fallible GeoCoordinate operations.  The trigonometry *)
(* is outside integer arithmetic: an f32 result is OkF32, and the forward  *)
(* projection is modelled for distance 0 only, where ratio = 0 gives       *)
(* lat = asin(sin(lat)) and lon = lon + atan2(0, _), the receiver itself.  *)

azimuth_to(self, other) ==
  IF ~GeoCoordinate_valid(self) THEN InvalidCoordinate(self)
  ELSE IF ~GeoCoordinate_valid(other) THEN InvalidCoordinate(other)
  ELSE OkF32

distance_to(self, other) ==
  IF ~GeoCoordinate_valid(self) THEN InvalidCoordinate(self)
  ELSE IF ~GeoCoordinate_valid(other) THEN InvalidCoordinate(other)
  ELSE OkF32

\* at distance 0 the code returns latitude asin(sin(lat)) and longitude
\* lon + atan2(0, ..), converted to radians and back.  In f64 that round trip
\* returns the operand for latitude 0 and +-90 degrees and for a longitude
\* that is a multiple of 90 degrees; for latitude +-45 degrees it returns the
\* neighbouring value 44.99999999999999, which is no whole number of ticks.
\* Any other distance moves the coordinate off the grid as well.
at_distance_and_azimuth_exact(self, distance, azimuth) ==
  \/ ~GeoCoordinate_valid(self)
  \/ /\ distance = 0
     /\ self.latitude \in {0 - D90, 0, D90}
     /\ self.longitude \in {0 - D180, 0 - D90, 0, D90, D180}

\* defined where at_distance_and_azimuth_exact holds
at_distance_and_azimuth(self, distance, azimuth) ==
  IF ~GeoCoordinate_valid(self) THEN InvalidCoordinate(self)
  ELSE OkCoord(GeoCoordinate_new(self.latitude, wrap(self.longitude, "Longitude"),
                                 self.altitude))

\* CardinalDirection::to_degrees
to_degrees(direction) ==
  CASE direction = "North" -> 0
    [] direction = "East" -> 90
    [] direction = "South" -> 180
    [] direction = "West" -> 270

----------------------------------------------------------------------------
(* georectangle.rs: GeoRectangle.  A rectangle is [tl, br]; a mutating     *)
(* method yields [rect |-> the receiver afterwards, res |-> its result].   *)

GeoRectangle_valid(self) ==
  /\ GeoCoordinate_valid(self.tl)
  /\ GeoCoordinate_valid(self.br)
  /\ Ge(self.tl.latitude, self.br.latitude)

top_left(self) == self.tl
bottom_right(self) == self.br
bottom_left(self) == GeoCoordinate_new(self.br.latitude, self.tl.longitude, None)
top_right(self) == GeoCoordinate_new(self.tl.latitude, self.br.longitude, None)

center(self) ==
  IF ~GeoRectangle_valid(self) THEN GeoCoordinate_default
  ELSE GeoCoordinate_new(
         Half(Add(self.tl.latitude, self.br.latitude)),
         wrap(IF Gt(self.tl.longitude, self.br.longitude)
              THEN Sub(Half(Add(self.br.longitude, self.tl.longitude)), D180)
              ELSE Half(Add(self.br.longitude, self.tl.longitude)),
              "Longitude"),
         None)

\* the halvings of center are exact
center_latitude_exact(self) == HalfExact(Add(self.tl.latitude, self.br.latitude))
center_longitude_exact(self) == HalfExact(Add(self.br.longitude, self.tl.longitude))

\* contains without the two pole rows
contains_noPoleRows(self, coordinate) ==
  IF ~GeoRectangle_valid(self) THEN InvalidCoordinate(self.tl)
  ELSE IF ~GeoCoordinate_valid(coordinate) THEN InvalidCoordinate(coordinate)
  ELSE IF \/ Gt(coordinate.latitude, self.tl.latitude)
          \/ Lt(coordinate.latitude, self.br.latitude)
       THEN OkBool(FALSE)
  ELSE IF Le(self.tl.longitude, self.br.longitude)
       THEN IF \/ Lt(coordinate.longitude, self.tl.longitude)
               \/ Gt(coordinate.longitude, self.br.longitude)
            THEN OkBool(FALSE) ELSE OkBool(TRUE)
       ELSE IF /\ Lt(coordinate.longitude, self.tl.longitude)
               /\ Gt(coordinate.longitude, self.br.longitude)
            THEN OkBool(FALSE) ELSE OkBool(TRUE)

contains(self, coordinate) ==
  IF ~GeoRectangle_valid(self) THEN InvalidCoordinate(self.tl)
  ELSE IF ~GeoCoordinate_valid(coordinate) THEN InvalidCoordinate(coordinate)
  ELSE IF \/ Gt(coordinate.latitude, self.tl.latitude)
          \/ Lt(coordinate.latitude, self.br.latitude)
       THEN OkBool(FALSE)
  ELSE IF Eq(coordinate.latitude, D90) /\ Eq(self.tl.latitude, D90) THEN OkBool(TRUE)
  ELSE IF Eq(coordinate.latitude, 0 - D90) /\ Eq(self.br.latitude, 0 - D90) THEN OkBool(TRUE)
  ELSE IF Le(self.tl.longitude, self.br.longitude)
       THEN IF \/ Lt(coordinate.longitude, self.tl.longitude)
               \/ Gt(coordinate.longitude, self.br.longitude)
            THEN OkBool(FALSE) ELSE OkBool(TRUE)
       ELSE IF /\ Lt(coordinate.longitude, self.tl.longitude)
               /\ Gt(coordinate.longitude, self.br.longitude)
            THEN OkBool(FALSE) ELSE OkBool(TRUE)

\* a && b with the ? operator: an Err returns at once, Ok(false) skips the rest
AndThen(a, b) == IF IsErr(a) THEN a ELSE IF ~a.bool THEN a ELSE b

contains_rect(self, other) ==
  AndThen(contains(self, top_left(other)),
    AndThen(contains(self, top_right(other)),
      AndThen(contains(self, bottom_left(other)),
              contains(self, bottom_right(other)))))

width(self) ==
  IF ~GeoRectangle_valid(self) THEN 0
  ELSE LET w0 == Sub(self.br.longitude, self.tl.longitude)
           w1 == IF Lt(w0, 0) THEN Add(w0, D360) ELSE w0
       IN  IF Gt(w1, D360) THEN Sub(w1, D360) ELSE w1

height(self) ==
  IF ~GeoRectangle_valid(self) THEN 0
  ELSE Sub(self.tl.latitude, self.br.latitude)

width_meters(self) ==
  IF ~GeoRectangle_valid(self) THEN InvalidGeorectangle(self)
  ELSE distance_to(top_left(self), top_right(self))

height_meters(self) ==
  IF ~GeoRectangle_valid(self) THEN InvalidGeorectangle(self)
  ELSE distance_to(top_left(self), bottom_left(self))

\* intersects deciding the mixed case (self plain, other crossing) with `or`
intersects_mixedOr(self, other) ==
  IF \/ Lt(self.tl.latitude, other.br.latitude)
     \/ Gt(self.br.latitude, other.tl.latitude) THEN FALSE
  ELSE IF Eq(self.tl.latitude, D90) /\ Eq(self.tl.latitude, other.tl.latitude) THEN TRUE
  ELSE IF Eq(self.br.latitude, 0 - D90) /\ Eq(self.br.latitude, other.br.latitude) THEN TRUE
  ELSE IF Lt(self.tl.longitude, self.br.longitude)
       THEN IF Lt(other.tl.longitude, other.br.longitude)
            THEN ~(\/ Gt(self.tl.longitude, other.br.longitude)
                   \/ Lt(self.br.longitude, other.tl.longitude))
            ELSE ~(\/ Gt(self.tl.longitude, other.br.longitude)
                   \/ Lt(self.br.longitude, other.tl.longitude))
       ELSE IF Lt(other.tl.longitude, other.br.longitude)
            THEN ~(/\ Gt(other.tl.longitude, self.br.longitude)
                   /\ Lt(other.br.longitude, self.tl.longitude))
            ELSE TRUE

intersects(self, other) ==
  IF \/ Lt(self.tl.latitude, other.br.latitude)
     \/ Gt(self.br.latitude, other.tl.latitude) THEN FALSE
  ELSE IF Eq(self.tl.latitude, D90) /\ Eq(self.tl.latitude, other.tl.latitude) THEN TRUE
  ELSE IF Eq(self.br.latitude, 0 - D90) /\ Eq(self.br.latitude, other.br.latitude) THEN TRUE
  ELSE IF Lt(self.tl.longitude, self.br.longitude)
       THEN IF Lt(other.tl.longitude, other.br.longitude)
            THEN ~(\/ Gt(self.tl.longitude, other.br.longitude)
                   \/ Lt(self.br.longitude, other.tl.longitude))
            ELSE ~(/\ Gt(self.tl.longitude, other.br.longitude)
                   /\ Lt(self.br.longitude, other.tl.longitude))
       ELSE IF Lt(other.tl.longitude, other.br.longitude)
            THEN ~(/\ Gt(other.tl.longitude, self.br.longitude)
                   /\ Lt(other.br.longitude, self.tl.longitude))
            ELSE TRUE

empty(self) ==
  IF ~GeoRectangle_valid(self) THEN TRUE
  ELSE /\ Eq(self.tl.latitude, self.br.latitude)
       /\ Eq(self.tl.longitude, self.br.longitude)

set_top_left(self, coordinate) ==
  IF ~GeoCoordinate_valid(coordinate)
  THEN [rect |-> self, res |-> InvalidCoordinate(coordinate)]
  ELSE [rect |-> [self EXCEPT !.tl = coordinate], res |-> OkUnit]

set_top_right(self, coordinate) ==
  IF ~GeoCoordinate_valid(coordinate)
  THEN [rect |-> self, res |-> InvalidCoordinate(coordinate)]
  ELSE [rect |-> [self EXCEPT !.tl.latitude = coordinate.latitude,
                              !.br.longitude = coordinate.longitude],
        res |-> OkUnit]

set_bottom_left(self, coordinate) ==
  IF ~GeoCoordinate_valid(coordinate)
  THEN [rect |-> self, res |-> InvalidCoordinate(coordinate)]
  ELSE [rect |-> [self EXCEPT !.br.latitude = coordinate.latitude,
                              !.tl.longitude = coordinate.longitude],
        res |-> OkUnit]

set_bottom_right(self, coordinate) ==
  IF ~GeoCoordinate_valid(coordinate)
  THEN [rect |-> self, res |-> InvalidCoordinate(coordinate)]
  ELSE [rect |-> [self EXCEPT !.br = coordinate], res |-> OkUnit]

set_width(self, width_degrees) ==
  IF ~GeoRectangle_valid(self) THEN [rect |-> self, res |-> Unit]
  ELSE IF Lt(width_degrees, 0) THEN [rect |-> self, res |-> Unit]
  ELSE IF Gt(width_degrees, D360)
       THEN [rect |-> [self EXCEPT !.tl.longitude = 0 - D180, !.br.longitude = D180],
             res |-> Unit]
  ELSE LET c == center(self)
       IN  [rect |-> GeoRectangle_new(
                       GeoCoordinate_new(
                         self.tl.latitude,
                         wrap(Sub(c.longitude, Half(width_degrees)), "Longitude"),
                         None),
                       GeoCoordinate_new(
                         self.br.latitude,
                         wrap(Add(c.longitude, Half(width_degrees)), "Longitude"),
                         None)),
            res |-> Unit]

\* set_width halves nothing, or halves exactly
set_width_exact(self, width_degrees) ==
  \/ ~GeoRectangle_valid(self)
  \/ Lt(width_degrees, 0)
  \/ Gt(width_degrees, D360)
  \/ center_longitude_exact(self) /\ HalfExact(width_degrees)

\* the pole cases with the first one mirroring br_lat but not clamping tl_lat
PoleCases_noClamp(c_lat, tl_lat0, br_lat0) ==
  LET s1 == IF Gt(tl_lat0, D90)
            THEN [tl |-> tl_lat0, br |-> Sub(Twice(c_lat), D90)]
            ELSE [tl |-> tl_lat0, br |-> br_lat0]
      s2 == IF Lt(s1.tl, 0 - D90) THEN [tl |-> 0 - D90, br |-> 0 - D90] ELSE s1
      s3 == IF Gt(s2.br, D90) THEN [tl |-> D90, br |-> D90] ELSE s2
      s4 == IF Lt(s3.br, 0 - D90)
            THEN [tl |-> Add(Twice(c_lat), D90), br |-> 0 - D90]
            ELSE s3
  IN  s4

\* the four pole cases shared by set_height and set_center, applied in the
\* order of the code to the pair <<tl_lat, br_lat>> around latitude c_lat
PoleCases(c_lat, tl_lat0, br_lat0) ==
  LET s1 == IF Gt(tl_lat0, D90)
            THEN [tl |-> D90, br |-> Sub(Twice(c_lat), D90)]
            ELSE [tl |-> tl_lat0, br |-> br_lat0]
      s2 == IF Lt(s1.tl, 0 - D90) THEN [tl |-> 0 - D90, br |-> 0 - D90] ELSE s1
      s3 == IF Gt(s2.br, D90) THEN [tl |-> D90, br |-> D90] ELSE s2
      s4 == IF Lt(s3.br, 0 - D90)
            THEN [tl |-> Add(Twice(c_lat), D90), br |-> 0 - D90]
            ELSE s3
  IN  s4

\* set_height without the upper limit of 180 on the height
set_height_noUpperLimit(self, height_degrees) ==
  IF ~GeoRectangle_valid(self) THEN [rect |-> self, res |-> Unit]
  ELSE IF Lt(height_degrees, 0) THEN [rect |-> self, res |-> Unit]
  ELSE LET c == center(self)
           lat == PoleCases(c.latitude,
                            Add(c.latitude, Half(height_degrees)),
                            Sub(c.latitude, Half(height_degrees)))
       IN  [rect |-> GeoRectangle_new(
                       GeoCoordinate_new(lat.tl, self.tl.longitude, None),
                       GeoCoordinate_new(lat.br, self.br.longitude, None)),
            res |-> Unit]

set_height(self, height_degrees) ==
  IF ~GeoRectangle_valid(self) THEN [rect |-> self, res |-> Unit]
  ELSE IF Lt(height_degrees, 0) \/ Gt(height_degrees, D180)
       THEN [rect |-> self, res |-> Unit]
  ELSE LET c == center(self)
           lat == PoleCases(c.latitude,
                            Add(c.latitude, Half(height_degrees)),
                            Sub(c.latitude, Half(height_degrees)))
       IN  [rect |-> GeoRectangle_new(
                       GeoCoordinate_new(lat.tl, self.tl.longitude, None),
                       GeoCoordinate_new(lat.br, self.br.longitude, None)),
            res |-> Unit]

set_height_exact(self, height_degrees) ==
  \/ ~GeoRectangle_valid(self)
  \/ Lt(height_degrees, 0) \/ Gt(height_degrees, D180)
  \/ center_latitude_exact(self) /\ HalfExact(height_degrees)

set_center(self, c) ==
  IF ~GeoCoordinate_valid(c) THEN [rect |-> self, res |-> InvalidCoordinate(c)]
  ELSE IF ~GeoRectangle_valid(self) THEN [rect |-> self, res |-> InvalidGeorectangle(self)]
  ELSE LET lat == PoleCases(c.latitude,
                            Add(c.latitude, Half(height(self))),
                            Sub(c.latitude, Half(height(self))))
           tl_lon0 == wrap(Sub(c.longitude, Half(width(self))), "Longitude")
           br_lon0 == wrap(Add(c.longitude, Half(width(self))), "Longitude")
           full == Eq(width(self), D360)
       IN  [rect |-> GeoRectangle_new(
                       GeoCoordinate_new(lat.tl, IF full THEN 0 - D180 ELSE tl_lon0, None),
                       GeoCoordinate_new(lat.br, IF full THEN D180 ELSE br_lon0, None)),
            res |-> OkUnit]

set_center_exact(self, c) ==
  \/ ~GeoCoordinate_valid(c)
  \/ ~GeoRectangle_valid(self)
  \/ HalfExact(height(self)) /\ HalfExact(width(self))

\* the longitude edges <<left, right>> extend_shape settles on
ExtendLongitude(left, right, lon) ==
  LET wrapped == Gt(left, right)
  IN  IF wrapped /\ Gt(lon, right) /\ Lt(lon, left)
      THEN IF Lt(Abs(Sub(left, lon)), Abs(Sub(right, lon)))
           THEN [left |-> lon, right |-> right]
           ELSE [left |-> left, right |-> lon]
      ELSE IF ~wrapped
      THEN IF Lt(lon, left)
           THEN IF Lt(Sub(D360, Sub(right, lon)), Sub(left, lon))
                THEN [left |-> left, right |-> lon]
                ELSE [left |-> lon, right |-> right]
           ELSE IF Gt(lon, right)
           THEN IF Lt(Sub(D360, Sub(lon, left)), Sub(lon, right))
                THEN [left |-> lon, right |-> right]
                ELSE [left |-> left, right |-> lon]
           ELSE [left |-> left, right |-> right]
      ELSE [left |-> left, right |-> right]

\* extend_shape with the bottom edge taken as the larger latitude
extend_shape_bottomMax(self, c) ==
  IF ~GeoRectangle_valid(self) THEN [rect |-> self, res |-> InvalidGeorectangle(self)]
  ELSE IF ~GeoCoordinate_valid(c) THEN [rect |-> self, res |-> InvalidCoordinate(c)]
  ELSE IF IsErr(contains(self, c)) THEN [rect |-> self, res |-> contains(self, c)]
  ELSE IF contains(self, c).bool THEN [rect |-> self, res |-> InvalidCoordinate(c)]
  ELSE LET top == Max(self.tl.latitude, c.latitude)
           bottom == Max(self.br.latitude, c.latitude)
           lon == ExtendLongitude(self.tl.longitude, self.br.longitude, c.longitude)
           s1 == set_top_left(self, GeoCoordinate_new(top, lon.left, None))
           s2 == set_bottom_right(s1.rect, GeoCoordinate_new(bottom, lon.right, None))
       IN  IF IsErr(s1.res) THEN s1 ELSE s2

extend_shape(self, c) ==
  IF ~GeoRectangle_valid(self) THEN [rect |-> self, res |-> InvalidGeorectangle(self)]
  ELSE IF ~GeoCoordinate_valid(c) THEN [rect |-> self, res |-> InvalidCoordinate(c)]
  ELSE IF IsErr(contains(self, c)) THEN [rect |-> self, res |-> contains(self, c)]
  ELSE IF contains(self, c).bool THEN [rect |-> self, res |-> InvalidCoordinate(c)]
  ELSE LET top == Max(self.tl.latitude, c.latitude)
           bottom == Min(self.br.latitude, c.latitude)
           lon == ExtendLongitude(self.tl.longitude, self.br.longitude, c.longitude)
           s1 == set_top_left(self, GeoCoordinate_new(top, lon.left, None))
           s2 == set_bottom_right(s1.rect, GeoCoordinate_new(bottom, lon.right, None))
       IN  IF IsErr(s1.res) THEN s1 ELSE s2

\* from_center_degrees with the width and the height exchanged
from_center_degrees_swapped(c, width_degrees, height_degrees) ==
  LET x0 == GeoRectangle_new(c, c)
      x1 == set_width(x0, height_degrees).rect
      x2 == set_height(x1, width_degrees).rect
  IN  x2

from_center_degrees(c, width_degrees, height_degrees) ==
  LET x0 == GeoRectangle_new(c, c)
      x1 == set_width(x0, width_degrees).rect
      x2 == set_height(x1, height_degrees).rect
  IN  x2

from_center_degrees_exact(c, width_degrees, height_degrees) ==
  /\ set_width_exact(GeoRectangle_new(c, c), width_degrees)
  /\ set_height_exact(set_width(GeoRectangle_new(c, c), width_degrees).rect, height_degrees)

\* a?.at_distance_and_azimuth(distance, azimuth)
Then_at(a, distance, azimuth) ==
  IF IsErr(a) THEN a ELSE at_distance_and_azimuth(a.coord, distance, azimuth)

\* both chains of from_center_meters stay on the grid: the second call of a
\* chain has the result of the first, here the centre itself, as its receiver
from_center_meters_exact(c, width_meters_, height_meters_) ==
  /\ HalfExact(width_meters_)
  /\ HalfExact(height_meters_)
  /\ at_distance_and_azimuth_exact(c, Half(height_meters_), to_degrees("North"))
  /\ at_distance_and_azimuth_exact(c, Half(width_meters_), to_degrees("West"))
  /\ at_distance_and_azimuth_exact(c, Half(height_meters_), to_degrees("South"))
  /\ at_distance_and_azimuth_exact(c, Half(width_meters_), to_degrees("East"))

from_center_meters(c, width_meters_, height_meters_) ==
  LET a == Then_at(at_distance_and_azimuth(c, Half(height_meters_), to_degrees("North")),
                   Half(width_meters_), to_degrees("West"))
      b == Then_at(at_distance_and_azimuth(c, Half(height_meters_), to_degrees("South")),
                   Half(width_meters_), to_degrees("East"))
  IN  IF IsErr(a) THEN a
      ELSE IF IsErr(b) THEN b
      ELSE OkRect(GeoRectangle_new(a.coord, b.coord))

----------------------------------------------------------------------------
(* path.rs: GeoPath.  The Vec is a sequence; index i of the code is        *)
(* position i + 1.  A method yields [path |-> the Vec afterwards, res].    *)

GeoPath_default == <<>>

\* new clones the given Vec, whatever its elements
GeoPath_new(p) == p

\* set_path stores the given Vec, whatever its elements
GeoPath_set_path(self, p) == [path |-> p, res |-> Unit]

size(self) == Len(self)

InsertAt(self, index, c) ==
  SubSeq(self, 1, index) \o <<c>> \o SubSeq(self, index + 1, Len(self))

RemoveAt(self, index) ==
  SubSeq(self, 1, index) \o SubSeq(self, index + 2, Len(self))

GeoPath_add(self, c) ==
  IF ~GeoCoordinate_valid(c) THEN [path |-> self, res |-> InvalidCoordinate(c)]
  ELSE [path |-> Append(self, c), res |-> OkUnit]

\* insert without the validity check
GeoPath_insert_unchecked(self, index, c) ==
  IF index > Len(self) THEN [path |-> self, res |-> Panic]
  ELSE [path |-> InsertAt(self, index, c), res |-> OkUnit]

\* Vec::insert panics when index > len
GeoPath_insert(self, index, c) ==
  IF ~GeoCoordinate_valid(c) THEN [path |-> self, res |-> InvalidCoordinate(c)]
  ELSE IF index > Len(self) THEN [path |-> self, res |-> Panic]
  ELSE [path |-> InsertAt(self, index, c), res |-> OkUnit]

GeoPath_at(self, index) ==
  IF index < Len(self) THEN OkCoord(self[index + 1])
  ELSE IndexOutOfBounds(index, Len(self))

GeoPath_remove(self, index) ==
  IF index >= size(self) THEN [path |-> self, res |-> IndexOutOfBounds(index, Len(self))]
  ELSE [path |-> RemoveAt(self, index), res |-> OkUnit]

GeoPath_replace(self, index, c) ==
  IF ~GeoCoordinate_valid(c) THEN [path |-> self, res |-> InvalidCoordinate(c)]
  ELSE IF index >= size(self)
       THEN [path |-> self, res |-> IndexOutOfBounds(index, Len(self))]
  ELSE [path |-> [self EXCEPT ![index + 1] = c], res |-> OkUnit]

GeoPath_clear(self) == [path |-> <<>>, res |-> Unit]

----------------------------------------------------------------------------
(* Inputs *)

Lats == {Deg(0 - 90), Deg(0 - 45), Deg(0), Deg(45), Deg(90)}
Lons == {Deg(0 - 180), Deg(0 - 90), Deg(0), Deg(90), Deg(180)}

ValidCoords == {GeoCoordinate_new(la, lo, None) : la \in Lats, lo \in Lons}

InvalidCoords ==
  {GeoCoordinate_default,
   GeoCoordinate_new(Deg(135), Deg(0), None),
   GeoCoordinate_new(Deg(0), Deg(270), None)}

Coords == ValidCoords \cup InvalidCoords
           \cup {GeoCoordinate_new(Deg(45), Deg(90), Some(1))}

Widths == {Deg(0 - 90), Deg(0), Deg(90), Deg(180), Deg(360), Deg(450), NaN}
Heights == {Deg(0 - 90), Deg(0), Deg(90), Deg(180), Deg(270), NaN}

\* tests::test_from_center_degrees
TestCenter == <<GeoCoordinate_new(Deg(5), Deg(5), None), Deg(10), Deg(10)>>

CenterInputs == (Coords \X Widths \X Heights) \cup {TestCenter}

\* the rectangles handed to contains_rect
OtherCorners ==
  {GeoCoordinate_new(Deg(45), Deg(0 - 90), None),
   GeoCoordinate_new(Deg(0 - 45), Deg(90), None),
   GeoCoordinate_new(Deg(0), Deg(0), None),
   GeoCoordinate_default}
Others == {GeoRectangle_new(a, b) : a \in OtherCorners, b \in OtherCorners}

\* the rectangles handed to intersects: plain, crossing the antimeridian,
\* of zero width, touching a pole, a single point, and the default one
IntersectOthers ==
  {GeoRectangle_new(GeoCoordinate_new(Deg(45), Deg(0 - 90), None),
                    GeoCoordinate_new(Deg(0 - 45), Deg(90), None)),
   GeoRectangle_new(GeoCoordinate_new(Deg(45), Deg(90), None),
                    GeoCoordinate_new(Deg(0 - 45), Deg(180), None)),
   GeoRectangle_new(GeoCoordinate_new(Deg(45), Deg(90), None),
                    GeoCoordinate_new(Deg(0 - 45), Deg(0 - 90), None)),
   GeoRectangle_new(GeoCoordinate_new(Deg(0), Deg(180), None),
                    GeoCoordinate_new(Deg(0 - 45), Deg(0 - 180), None)),
   GeoRectangle_new(GeoCoordinate_new(Deg(45), Deg(0), None),
                    GeoCoordinate_new(Deg(0 - 45), Deg(0), None)),
   GeoRectangle_new(GeoCoordinate_new(Deg(90), Deg(0), None),
                    GeoCoordinate_new(Deg(45), Deg(90), None)),
   GeoRectangle_new(GeoCoordinate_new(Deg(0 - 45), Deg(0 - 180), None),
                    GeoCoordinate_new(Deg(0 - 90), Deg(0 - 90), None)),
   GeoRectangle_new(GeoCoordinate_new(Deg(0), Deg(0), None),
                    GeoCoordinate_new(Deg(0), Deg(0), None)),
   GeoRectangle_default}

\* coordinates that differ from one another in altitude only
AltCoords ==
  {GeoCoordinate_new(Deg(45), Deg(90), Some(10)),
   GeoCoordinate_new(Deg(45), Deg(90), Some(0 - 1)),
   GeoCoordinate_new(Deg(45), Deg(90), None)}
CoordInputs == Coords \cup AltCoords

\* metres; see at_distance_and_azimuth
Distances == {0}
Azimuths == {to_degrees(d) : d \in {"North", "East", "South", "West"}}

PathCoords ==
  {GeoCoordinate_new(Deg(0), Deg(0), None),
   GeoCoordinate_new(Deg(90), Deg(180), None),
   GeoCoordinate_new(Deg(45), Deg(90), Some(1)),
   GeoCoordinate_default,
   GeoCoordinate_new(Deg(135), Deg(0), None)}
Indexes == 0 .. MaxLen + 1

\* the Vecs handed to GeoPath::new and set_path
PathInputs == UNION {[1 .. n -> PathCoords] : n \in 0 .. MaxLen}

----------------------------------------------------------------------------
(* State *)

self_rect == GeoRectangle_new(tl, br)

Call(op, c, x, y, other, res) ==
  [op |-> op, c |-> c, x |-> x, y |-> y, other |-> other,
   pre |-> self_rect, prePath |-> path, res |-> res]

NoCall ==
  [op |-> "none", c |-> GeoCoordinate_default, x |-> 0, y |-> 0,
   other |-> GeoRectangle_default, pre |-> GeoRectangle_default,
   prePath |-> <<>>, res |-> Blank]

Init ==
  /\ obj = "none"
  /\ tl = GeoCoordinate_default
  /\ br = GeoCoordinate_default
  /\ path = GeoPath_default
  /\ coord = GeoCoordinate_default
  /\ calls = 0
  /\ last = NoCall

\* no call has been observed yet (and none has panicked)
Running == last = NoCall

\* the call just made is observed or not; a panic always is
Observe(call) ==
  /\ last' \in IF call.res.kind = "Panic" THEN {call} ELSE {NoCall, call}
  /\ UNCHANGED calls

\* a rectangle setter call: unobserved while fewer than MaxCalls were made
ObserveSetter(call) ==
  /\ last' \in IF calls < MaxCalls THEN {NoCall, call} ELSE {call}
  /\ calls' = IF last' = NoCall THEN calls + 1 ELSE calls

\* a call that leaves the receiver alone is the observed one
ObserveQuery(call) ==
  /\ last' = call
  /\ UNCHANGED calls

NoC == GeoCoordinate_default
NoR == GeoRectangle_default

\* the next call is made on a value of kind `kind` ("none": a constructor)
Receiver(kind) == Running /\ obj = kind

(* Constructors *)

New ==
  /\ Receiver("none")
  /\ \E a \in Coords, b \in Coords :
       /\ obj' = "rect"
       /\ tl' = GeoRectangle_new(a, b).tl
       /\ br' = GeoRectangle_new(a, b).br
       /\ Observe(Call("new", NoC, 0, 0, GeoRectangle_new(a, b), Unit))
  /\ UNCHANGED <<path, coord>>

Default ==
  /\ Receiver("none")
  /\ obj' = "rect"
  /\ tl' = GeoRectangle_default.tl
  /\ br' = GeoRectangle_default.br
  /\ Observe(Call("default", NoC, 0, 0, NoR, Unit))
  /\ UNCHANGED <<path, coord>>

FromCenterDegrees ==
  /\ Receiver("none")
  /\ \E i \in CenterInputs :
       LET c == i[1]
           w == i[2]
           h == i[3]
       IN  /\ from_center_degrees_exact(c, w, h)
           /\ obj' = "rect"
           /\ tl' = from_center_degrees(c, w, h).tl
           /\ br' = from_center_degrees(c, w, h).br
           /\ Observe(Call("from_center_degrees", c, w, h, NoR, Unit))
  /\ UNCHANGED <<path, coord>>

FromCenterMeters ==
  /\ Receiver("none")
  /\ \E c \in Coords, w \in Distances, h \in Distances :
       LET out == from_center_meters(c, w, h)
       IN  /\ from_center_meters_exact(c, w, h)
           /\ obj' = IF IsOk(out) THEN "rect" ELSE "none"
           /\ tl' = IF IsOk(out) THEN out.rect.tl ELSE tl
           /\ br' = IF IsOk(out) THEN out.rect.br ELSE br
           /\ Observe(Call("from_center_meters", c, w, h, NoR, out))
  /\ UNCHANGED <<path, coord>>

PathDefault ==
  /\ Receiver("none")
  /\ obj' = "path"
  /\ path' = GeoPath_default
  /\ Observe(Call("path_default", NoC, 0, 0, NoR, Unit))
  /\ UNCHANGED <<tl, br, coord>>

PathNew ==
  /\ Receiver("none")
  /\ \E p \in PathInputs :
       /\ obj' = "path"
       /\ path' = GeoPath_new(p)
       /\ Observe(Call("path_new", NoC, 0, 0, NoR, Unit))
  /\ UNCHANGED <<tl, br, coord>>

CoordNew ==
  /\ Receiver("none")
  /\ \E c \in CoordInputs :
       /\ obj' = "coord"
       /\ coord' = GeoCoordinate_new(c.latitude, c.longitude, c.altitude)
       /\ Observe(Call("coord_new", c, 0, 0, NoR, Unit))
  /\ UNCHANGED <<tl, br, path>>

(* GeoRectangle methods *)

\* a &mut self method returned `out`
Mutate(op, c, x, out) ==
  /\ tl' = out.rect.tl
  /\ br' = out.rect.br
  /\ ObserveSetter(Call(op, c, x, 0, NoR, out.res))
  /\ UNCHANGED <<obj, path, coord>>

\* a &self method returned `res`
Query(op, c, other, res) ==
  /\ ObserveQuery(Call(op, c, 0, 0, other, res))
  /\ UNCHANGED <<obj, tl, br, path, coord>>

SetTopLeft ==
  /\ Receiver("rect")
  /\ \E c \in Coords : Mutate("set_top_left", c, 0, set_top_left(self_rect, c))

SetTopRight ==
  /\ Receiver("rect")
  /\ \E c \in Coords : Mutate("set_top_right", c, 0, set_top_right(self_rect, c))

SetBottomLeft ==
  /\ Receiver("rect")
  /\ \E c \in Coords : Mutate("set_bottom_left", c, 0, set_bottom_left(self_rect, c))

SetBottomRight ==
  /\ Receiver("rect")
  /\ \E c \in Coords : Mutate("set_bottom_right", c, 0, set_bottom_right(self_rect, c))

SetWidth ==
  /\ Receiver("rect")
  /\ \E w \in Widths :
       /\ set_width_exact(self_rect, w)
       /\ Mutate("set_width", NoC, w, set_width(self_rect, w))

SetHeight ==
  /\ Receiver("rect")
  /\ \E h \in Heights :
       /\ set_height_exact(self_rect, h)
       /\ Mutate("set_height", NoC, h, set_height(self_rect, h))

SetCenter ==
  /\ Receiver("rect")
  /\ \E c \in Coords :
       /\ set_center_exact(self_rect, c)
       /\ Mutate("set_center", c, 0, set_center(self_rect, c))

ExtendShape ==
  /\ Receiver("rect")
  /\ \E c \in Coords : Mutate("extend_shape", c, 0, extend_shape(self_rect, c))

Contains ==
  /\ Receiver("rect")
  /\ \E c \in Coords : Query("contains", c, NoR, contains(self_rect, c))

ContainsRect ==
  /\ Receiver("rect")
  /\ \E other \in Others :
       Query("contains_rect", NoC, other, contains_rect(self_rect, other))

Intersects ==
  /\ Receiver("rect")
  /\ \E other \in IntersectOthers :
       Query("intersects", NoC, other, Bool(intersects(self_rect, other)))

WidthMeters ==
  /\ Receiver("rect")
  /\ Query("width_meters", NoC, NoR, width_meters(self_rect))

HeightMeters ==
  /\ Receiver("rect")
  /\ Query("height_meters", NoC, NoR, height_meters(self_rect))

(* GeoPath methods *)

PathCall(op, c, index, out) ==
  /\ Len(out.path) <= MaxLen
  /\ path' = out.path
  /\ Observe(Call(op, c, index, 0, NoR, out.res))
  /\ UNCHANGED <<obj, tl, br, coord>>

PathAdd ==
  /\ Receiver("path")
  /\ \E c \in PathCoords : PathCall("add", c, 0, GeoPath_add(path, c))

PathInsert ==
  /\ Receiver("path")
  /\ \E i \in Indexes, c \in PathCoords :
       PathCall("insert", c, i, GeoPath_insert(path, i, c))

PathAt ==
  /\ Receiver("path")
  /\ \E i \in Indexes :
       PathCall("at", NoC, i, [path |-> path, res |-> GeoPath_at(path, i)])

PathRemove ==
  /\ Receiver("path")
  /\ \E i \in Indexes : PathCall("remove", NoC, i, GeoPath_remove(path, i))

PathReplace ==
  /\ Receiver("path")
  /\ \E i \in Indexes, c \in PathCoords :
       PathCall("replace", c, i, GeoPath_replace(path, i, c))

PathSetPath ==
  /\ Receiver("path")
  /\ \E p \in PathInputs : PathCall("set_path", NoC, 0, GeoPath_set_path(path, p))

PathClear ==
  /\ Receiver("path")
  /\ PathCall("clear", NoC, 0, GeoPath_clear(path))

(* GeoCoordinate methods *)

CoordCall(op, c, x, y, res) ==
  /\ ObserveQuery(Call(op, c, x, y, NoR, res))
  /\ UNCHANGED <<obj, tl, br, path, coord>>

PartialEq ==
  /\ Receiver("coord")
  /\ \E other \in CoordInputs :
       CoordCall("eq", other, 0, 0, Bool(GeoCoordinate_eq(coord, other)))

AzimuthTo ==
  /\ Receiver("coord")
  /\ \E other \in Coords :
       CoordCall("azimuth_to", other, 0, 0, azimuth_to(coord, other))

DistanceTo ==
  /\ Receiver("coord")
  /\ \E other \in Coords :
       CoordCall("distance_to", other, 0, 0, distance_to(coord, other))

AtDistanceAndAzimuth ==
  /\ Receiver("coord")
  /\ \E d \in Distances, az \in Azimuths :
       /\ at_distance_and_azimuth_exact(coord, d, az)
       /\ CoordCall("at_distance_and_azimuth", NoC, d, az,
                    at_distance_and_azimuth(coord, d, az))

Next ==
  \/ New
  \/ Default
  \/ FromCenterDegrees
  \/ FromCenterMeters
  \/ PathDefault
  \/ PathNew
  \/ CoordNew
  \/ SetTopLeft
  \/ SetTopRight
  \/ SetBottomLeft
  \/ SetBottomRight
  \/ SetWidth
  \/ SetHeight
  \/ SetCenter
  \/ ExtendShape
  \/ Contains
  \/ ContainsRect
  \/ Intersects
  \/ WidthMeters
  \/ HeightMeters
  \/ PathAdd
  \/ PathInsert
  \/ PathAt
  \/ PathRemove
  \/ PathReplace
  \/ PathSetPath
  \/ PathClear
  \/ PartialEq
  \/ AzimuthTo
  \/ DistanceTo
  \/ AtDistanceAndAzimuth

Spec == Init /\ [][Next]_vars

----------------------------------------------------------------------------
(* Properties.  `pre` is the receiver rectangle before the observed call,  *)
(* self_rect the rectangle after it.                                       *)

pre == last.pre

CornerSetters == {"set_top_left", "set_top_right", "set_bottom_left", "set_bottom_right"}

InBand(r, p) == r.br.latitude <= p.latitude /\ p.latitude <= r.tl.latitude

AtPole(r, p) ==
  \/ p.latitude = D90 /\ r.tl.latitude = D90
  \/ p.latitude = 0 - D90 /\ r.br.latitude = 0 - D90

InPlainInterval(r, p) ==
  /\ r.tl.longitude <= r.br.longitude
  /\ r.tl.longitude <= p.longitude /\ p.longitude <= r.br.longitude

ContainsCall ==
  /\ last.op = "contains"
  /\ GeoRectangle_valid(pre)
  /\ GeoCoordinate_valid(last.c)

\* C1 as stated: contains is Ok(true) exactly when the latitude is in
\* [br.lat, tl.lat] and a pole row matches, or the plain interval holds the
\* longitude, or the rectangle wraps and the longitude is not in the closed
\* interval [br.lon, tl.lon]; Ok(false) otherwise.
C1_ClosedComplement ==
  ContainsCall =>
    last.res = OkBool(
      /\ InBand(pre, last.c)
      /\ \/ AtPole(pre, last.c)
         \/ InPlainInterval(pre, last.c)
         \/ /\ pre.tl.longitude > pre.br.longitude
            /\ ~(/\ pre.br.longitude <= last.c.longitude
                 /\ last.c.longitude <= pre.tl.longitude))

\* C1 amended: as above, but a wrapped rectangle excludes only the longitudes
\* strictly between br.lon and tl.lon, so both of its edges are contained.
C1_Contains ==
  ContainsCall =>
    last.res = OkBool(
      /\ InBand(pre, last.c)
      /\ \/ AtPole(pre, last.c)
         \/ InPlainInterval(pre, last.c)
         \/ /\ pre.tl.longitude > pre.br.longitude
            /\ ~(/\ pre.br.longitude < last.c.longitude
                 /\ last.c.longitude < pre.tl.longitude))

\* a wrapped rectangle was asked about a point on its right edge, off the poles
C1_Witness ==
  /\ ContainsCall
  /\ pre.tl.longitude > pre.br.longitude
  /\ last.c.longitude = pre.br.longitude
  /\ InBand(pre, last.c)
  /\ ~AtPole(pre, last.c)
  /\ last.res = OkBool(TRUE)

DimensionCall ==
  /\ last.op \in {"set_width", "set_height", "set_center"}
  /\ GeoRectangle_valid(pre)

\* C2 as stated: set_width, set_height and set_center with arbitrary
\* arguments leave a valid rectangle valid.
C2_AnyArgument == DimensionCall => GeoRectangle_valid(self_rect)

\* C2 amended: set_width, set_height and set_center leave a valid rectangle
\* valid for every width and height that is not NaN and every center.
C2_DimensionSettersKeepValid ==
  (DimensionCall /\ last.x # NaN) => GeoRectangle_valid(self_rect)

\* set_center moved a rectangle so that its top passed the north pole
C2_Witness ==
  /\ last.op = "set_center"
  /\ GeoRectangle_valid(pre)
  /\ IsOk(last.res)
  /\ Gt(Add(last.c.latitude, Half(height(pre))), D90)
  /\ self_rect.tl.latitude = D90
  /\ self_rect.br.latitude > 0 - D90
  /\ GeoRectangle_valid(self_rect)

\* C3: a successful corner setter on a valid rectangle leaves it valid.
C3_CornerSettersKeepValid ==
  (last.op \in CornerSetters /\ IsOk(last.res) /\ GeoRectangle_valid(pre))
    => GeoRectangle_valid(self_rect)

Rejected ==
  \/ /\ last.op \in CornerSetters \cup {"set_center", "extend_shape"}
     /\ IsErr(last.res)
  \/ /\ last.op = "set_width"
     /\ ~GeoRectangle_valid(pre) \/ Lt(last.x, 0)
  \/ /\ last.op = "set_height"
     /\ ~GeoRectangle_valid(pre) \/ Lt(last.x, 0) \/ Gt(last.x, D180)

\* C4: a rejected mutation (an error from a corner setter, set_center or
\* extend_shape; set_width or set_height on an invalid rectangle or with an
\* out-of-range argument) leaves tl and br as they were.
C4_RejectedLeavesUnchanged == Rejected => self_rect = pre

\* set_height was refused a height above 180 on a valid rectangle
C4_Witness ==
  /\ last.op = "set_height"
  /\ GeoRectangle_valid(pre)
  /\ Gt(last.x, D180)
  /\ self_rect = pre

InvalidOperand ==
  \/ /\ last.op \in {"azimuth_to", "distance_to"}
     /\ ~GeoCoordinate_valid(coord) \/ ~GeoCoordinate_valid(last.c)
  \/ /\ last.op = "at_distance_and_azimuth"
     /\ ~GeoCoordinate_valid(coord)
  \/ /\ last.op = "from_center_meters"
     /\ ~GeoCoordinate_valid(last.c)
  \/ /\ last.op = "contains"
     /\ ~GeoRectangle_valid(pre) \/ ~GeoCoordinate_valid(last.c)
  \/ /\ last.op = "contains_rect"
     /\ ~GeoRectangle_valid(pre) \/ ~GeoRectangle_valid(last.other)
  \/ /\ last.op \in {"width_meters", "height_meters"}
     /\ ~GeoRectangle_valid(pre)
  \/ /\ last.op = "set_center"
     /\ ~GeoRectangle_valid(pre) \/ ~GeoCoordinate_valid(last.c)
  \/ /\ last.op \in CornerSetters
     /\ ~GeoCoordinate_valid(last.c)

\* C5: a fallible operation whose receiver or argument is invalid returns an
\* error, never Ok (for the corner setters: whose argument is invalid).
C5_InvalidOperandIsError == InvalidOperand => IsErr(last.res)

BandFits ==
  /\ Le(Add(last.c.latitude, Half(height(pre))), D90)
  /\ Ge(Sub(last.c.latitude, Half(height(pre))), 0 - D90)

\* C6: a successful set_center whose new latitude band fits between the
\* poles keeps width() and height(), and a 360 wide rectangle keeps the
\* longitudes -180 and 180.
C6_SetCenterKeepsSize ==
  (last.op = "set_center" /\ IsOk(last.res) /\ GeoRectangle_valid(pre) /\ BandFits)
    => /\ width(self_rect) = width(pre)
       /\ height(self_rect) = height(pre)
       /\ width(pre) = D360 =>
            self_rect.tl.longitude = 0 - D180 /\ self_rect.br.longitude = D180

FromCenterCall ==
  /\ last.op = "from_center_degrees"
  /\ GeoCoordinate_valid(last.c)
  /\ Le(0, last.x) /\ Le(last.x, D360)
  /\ Le(0, last.y) /\ Le(last.y, D180)
  /\ Ge(last.c.longitude - Half(last.x), 0 - D180)
  /\ Le(last.c.longitude + Half(last.x), D180)
  /\ Ge(last.c.latitude - Half(last.y), 0 - D90)
  /\ Le(last.c.latitude + Half(last.y), D90)

\* C7: from_center_degrees(c, w, h) with the four edges in range returns
\* top-left (c.lat + h/2, c.lon - w/2) and bottom-right (c.lat - h/2, c.lon + w/2).
C7_FromCenterDegrees ==
  FromCenterCall =>
    /\ tl = GeoCoordinate_new(last.c.latitude + Half(last.y),
                              last.c.longitude - Half(last.x), None)
    /\ br = GeoCoordinate_new(last.c.latitude - Half(last.y),
                              last.c.longitude + Half(last.x), None)

\* center (5, 5) with w = h = 10 gave top-left (10, 0) and bottom-right (0, 10)
C7_Witness ==
  /\ FromCenterCall
  /\ last.c = GeoCoordinate_new(Deg(5), Deg(5), None)
  /\ last.x = Deg(10) /\ last.y = Deg(10)
  /\ tl = GeoCoordinate_new(Deg(10), Deg(0), None)
  /\ br = GeoCoordinate_new(Deg(0), Deg(10), None)

PathElementsValid(p) == \A i \in 1 .. Len(p) : GeoCoordinate_valid(p[i])

\* C8: add, insert and replace with an invalid coordinate return
\* InvalidCoordinate and leave the path unchanged; a path built from the
\* empty one by add, insert, replace, remove and clear has only valid
\* elements: the empty path has, and each of the five calls made on a path
\* of valid elements leaves a path of valid elements.
C8_PathElementsValid ==
  /\ last.op = "path_default" => PathElementsValid(path)
  /\ (/\ last.op \in {"add", "insert", "replace", "remove", "clear"}
      /\ PathElementsValid(last.prePath)) => PathElementsValid(path)
  /\ (last.op \in {"add", "insert", "replace"} /\ ~GeoCoordinate_valid(last.c))
       => last.res = InvalidCoordinate(last.c) /\ path = last.prePath

\* insert into a non-empty path was refused an invalid coordinate
C8_Witness ==
  /\ last.op = "insert"
  /\ ~GeoCoordinate_valid(last.c)
  /\ last.x <= Len(last.prePath)
  /\ Len(path) >= 1
  /\ PathElementsValid(last.prePath)
  /\ last.res = InvalidCoordinate(last.c)

OutOfBounds ==
  \/ last.op \in {"at", "remove"} /\ last.x >= Len(last.prePath)
  \/ /\ last.op = "replace"
     /\ GeoCoordinate_valid(last.c)
     /\ last.x >= Len(last.prePath)
  \/ /\ last.op = "insert"
     /\ GeoCoordinate_valid(last.c)
     /\ last.x > Len(last.prePath)

\* C9: at, remove, replace and insert given an out-of-bounds index (and, for
\* replace and insert, a valid coordinate) return IndexOutOfBounds(index,
\* length) as an error value, without aborting, and leave the path unchanged.
C9_OutOfBoundsIsError ==
  OutOfBounds =>
    /\ last.res = IndexOutOfBounds(last.x, Len(last.prePath))
    /\ path = last.prePath

\* C10: every InvalidCoordinate error carries a coordinate that is not valid.
C10_PayloadIsInvalid ==
  (IsErr(last.res) /\ last.res.err = "InvalidCoordinate")
    => ~GeoCoordinate_valid(last.res.coord)

(* extend_shape *)

ExtendCall == last.op = "extend_shape"

\* the coordinates whose membership can change when a rectangle's edges move:
\* every latitude and longitude that is an edge of the rectangle before or
\* after the call, the argument's own, and the input grid
ProbeLats == Lats \cup {pre.tl.latitude, pre.br.latitude, last.c.latitude,
                        tl.latitude, br.latitude}
ProbeLons == Lons \cup {pre.tl.longitude, pre.br.longitude, last.c.longitude,
                        tl.longitude, br.longitude}
Probes == {q \in {GeoCoordinate_new(la, lo, None) : la \in ProbeLats, lo \in ProbeLons} :
             GeoCoordinate_valid(q)}

\* C11: when extend_shape(p) returns Ok on a valid rectangle the rectangle is
\* valid afterwards, contains p, and still contains every coordinate it
\* contained before; when the rectangle or p is invalid, or p is already
\* contained, extend_shape returns an error.
C11_ExtendShapeGrows ==
  ExtendCall =>
    /\ (GeoRectangle_valid(pre) /\ IsOk(last.res)) =>
         /\ GeoRectangle_valid(self_rect)
         /\ contains(self_rect, last.c) = OkBool(TRUE)
         /\ \A q \in Probes :
              contains(pre, q) = OkBool(TRUE) => contains(self_rect, q) = OkBool(TRUE)
    /\ (\/ ~GeoRectangle_valid(pre)
        \/ ~GeoCoordinate_valid(last.c)
        \/ contains(pre, last.c) = OkBool(TRUE)) => IsErr(last.res)

\* a rectangle crossing the antimeridian was extended by a coordinate in its gap
C11_Witness ==
  /\ ExtendCall
  /\ IsOk(last.res)
  /\ GeoRectangle_valid(pre)
  /\ Gt(pre.tl.longitude, pre.br.longitude)
  /\ Gt(last.c.longitude, pre.br.longitude)
  /\ Lt(last.c.longitude, pre.tl.longitude)
  /\ self_rect # pre
  /\ \E q \in Probes : contains(pre, q) = OkBool(TRUE)

(* intersects *)

IntersectsCall ==
  /\ last.op = "intersects"
  /\ GeoRectangle_valid(pre)
  /\ GeoRectangle_valid(last.other)

\* two closed regions that meet, meet at a latitude and a longitude that
\* are an edge of one of them, a pole or the antimeridian
CommonProbes(a, b) ==
  {q \in {GeoCoordinate_new(la, lo, None) :
            la \in Lats \cup {a.tl.latitude, a.br.latitude, b.tl.latitude, b.br.latitude},
            lo \in Lons \cup {a.tl.longitude, a.br.longitude,
                              b.tl.longitude, b.br.longitude}} :
     GeoCoordinate_valid(q)}

\* some valid coordinate is contained by both rectangles
Common(a, b) ==
  \E q \in CommonProbes(a, b) :
    /\ contains(a, q) = OkBool(TRUE)
    /\ contains(b, q) = OkBool(TRUE)

\* C12: when two valid rectangles A and B both contain some valid coordinate,
\* A.intersects(B) and B.intersects(A) are both true, whether or not either
\* of them crosses the antimeridian.
C12_NoFalseNegative ==
  (IntersectsCall /\ Common(pre, last.other)) =>
    /\ last.res = Bool(TRUE)
    /\ intersects(last.other, pre)

\* a rectangle crossing the antimeridian and a plain one share a coordinate
C12_Witness ==
  /\ IntersectsCall
  /\ Gt(pre.tl.longitude, pre.br.longitude)
  /\ Lt(last.other.tl.longitude, last.other.br.longitude)
  /\ Common(pre, last.other)
  /\ last.res = Bool(TRUE)

\* C13: when neither of two valid rectangles crosses the antimeridian
\* (tl.lon <= br.lon each, zero width included) and A.intersects(B) is true,
\* some valid coordinate is contained by both.
C13_NoFalsePositive ==
  (/\ IntersectsCall
   /\ Le(pre.tl.longitude, pre.br.longitude)
   /\ Le(last.other.tl.longitude, last.other.br.longitude)
   /\ last.res = Bool(TRUE)) => Common(pre, last.other)

(* PartialEq for GeoCoordinate *)

EqCall == last.op = "eq"

\* last.c == coord, the comparison of the observed call the other way round
Flipped == GeoCoordinate_eq(last.c, coord)

BothAltitudes == coord.altitude # None /\ last.c.altitude # None

\* C14: a == b holds exactly when b == a holds, whichever of the two carries
\* an altitude; and two coordinates that both carry an altitude are equal
\* only when the altitudes are within the epsilon of one another.
C14_EqualitySymmetric ==
  EqCall =>
    /\ last.res = Bool(Flipped)
    /\ (BothAltitudes /\ last.res = Bool(TRUE)) =>
         approx_eq_f32(coord.altitude[1], last.c.altitude[1])
====
